---- MODULE Spec2Model ----
(***************************************************************************)
(* A model of the HTTP load generator of src/http_benchmark.py:            *)
(* HTTPBenchmark.run iterates the concurrency levels one after the other,  *)
(* each LoadGenerator.run spawns `concurrency` asyncio tasks (_worker)     *)
(* that loop over _send_request until the wall clock reaches end_time,     *)
(* and the run reduces the two shared lists into one metrics row.          *)
(*                                                                         *)
(* Time is a discrete clock `now`; one tick is one second, so a latency    *)
(* (milliseconds in the code) is 1000 * the ticks a request was in flight. *)
(* time.time() and time.monotonic() are read off the same clock.           *)
(* Formatted numbers (f"{x:.2f}") are represented by their hundredths.     *)
(***************************************************************************)
EXTENDS Integers, Sequences, FiniteSets, TLC

\* ------------------------------------------------------------------ bounds
\* largest concurrency level drawn as an input
MaxConc == 2
\* longest list of concurrency levels drawn as an input
MaxLevels == 2
\* longest duration (seconds) drawn as an input
MaxDuration == 1
\* most attempts one Concurrency Run begins in the model
MaxSamples == 3
\* how many ticks the clock may run past a run's deadline
MaxOvershoot == 1
\* longest latency list handed to the reduce step on its own
MaxListLen == 4
\* largest latency (ms) in such a list
MaxLatency == 3

\* ------------------------------------------------------------------ inputs
ConcValues == (0 - 1)..MaxConc
Durations == (0 - 1)..MaxDuration
LevelLists == UNION {[1..n -> ConcValues] : n \in 0..MaxLevels}
Urls == {"http://example.com", "http//:bad url"}
RequestTypes == {"GET", "get", "PUT", "POST", "DELETE"}
Modes == {"burst", "uniform", "exponential"}
NoData == "None"
DataValues == {NoData, "k=v"}
PercentileRanks == {50, 75, 95, 99}
LatencyLists == UNION {[1..n -> 0..MaxLatency] : n \in 1..MaxListLen}

\* str.upper() on the request types of the model
Upper(s) == IF s = "get" THEN "GET" ELSE s

\* whether the transport can build a request for the URL; when it cannot,
\* session.request raises inside the try block of _send_request
ValidUrl(u) == u = "http://example.com"

VARIABLES
    url,                \* self.url
    duration,           \* self.duration
    concurrency_levels, \* self.concurrency_levels
    request_type,       \* self.request_type (already upper-cased)
    data,               \* self.data
    mode,               \* self.mode
    now,                \* the wall clock
    phase,              \* where HTTPBenchmark.run is: loop, gather, done, raised
    level_idx,          \* how many levels the for loop of run_tests has taken
    rows,               \* `results` of run_tests: the metrics rows so far
    report,             \* the rows handed to the caller by HTTPBenchmark.run
    end_time,           \* end_time of the LoadGenerator.run in progress
    results,            \* `results` of LoadGenerator.run: latencies
    errors,             \* `errors` of LoadGenerator.run: one 1 per error
    tasks,              \* the worker tasks created so far: <<run, k>> -> record
    completed,          \* history: attempts completed by the workers of each run
    okLat,              \* history: latencies of the successful attempts of the run
    sent                \* history: the requests handed to the transport

vars == <<url, duration, concurrency_levels, request_type, data, mode, now, phase,
          level_idx, rows, report, end_time, results, errors, tasks, completed,
          okLat, sent>>

inputs == <<url, duration, concurrency_levels, request_type, data, mode>>

\* ------------------------------------------------------------------ helpers
Min(a, b) == IF a < b THEN a ELSE b

\* num/den rounded to the nearest integer, ties to even: what f"{x:.2f}" does
\* to the hundredths of x (a tie is exact in binary only when den is a power
\* of two, and every tie of a ratio with den < 40 has den = 8)
RoundHalfEven(num, den) ==
    LET q == num \div den
        r == num % den
    IN  IF 2 * r < den THEN q
        ELSE IF 2 * r > den THEN q + 1
        ELSE q + (q % 2)

\* f"{num/den:.2f}" as hundredths
Fmt2(num, den) == RoundHalfEven(100 * num, den)

\* ------------------------------------------------------------------ _send_request
\* variant: every mode sleeps before its request
PacedAlways(m) == TRUE

\* the pacing delay is awaited only in the two jittered modes
Paced(m) == m \in {"uniform", "exponential"}

\* the body handed to session.request: data=self.data, whatever the method
RequestBody(method, d) == d

\* (time.monotonic() - start_time) * 1000
Latency(start, t) == (t - start) * 1000

\* the value returned by the except branch
ErrorLatency == 0 - 1

\* how a request can end: the response is read, or an exception is raised;
\* an URL the transport rejects raises every time
Outcomes(u) == IF ValidUrl(u) THEN {"ok", "fail"} ELSE {"fail"}

\* variant: a failed request returns the elapsed time like a successful one
SendResultElapsed(outcome, start, t) == Latency(start, t)

\* the value _send_request returns
SendResult(outcome, start, t) ==
    IF outcome = "ok" THEN Latency(start, t) ELSE ErrorLatency

\* ------------------------------------------------------------------ _worker
\* variant: the loop goes on at the deadline itself
DeadlineOpenInclusive(t, deadline) == t <= deadline

\* variant: the loop is left one second early
DeadlineOpenEarly(t, deadline) == t + 1 < deadline

\* variant: the loop never looks at the clock
DeadlineAlwaysOpen(t, deadline) == TRUE

\* the loop condition: time.time() < end_time
DeadlineOpen(t, deadline) == t < deadline

\* variant: the else branch does nothing
NewErrorsNever(err, latency) == err

\* variants: an append that left its branch of the if
NewResultsAlways(res, latency) == Append(res, latency)
NewErrorsAlways(err, latency) == Append(err, 1)

\* the two branches of `if latency >= 0`
NewResults(res, latency) == IF latency >= 0 THEN Append(res, latency) ELSE res
NewErrors(err, latency) == IF latency >= 0 THEN err ELSE Append(err, 1)

\* ------------------------------------------------------------------ run: reduce
\* variant: the interpolation over the list as appended, not sorted
Percentile100Unsorted(lat, p) ==
    LET n == Len(lat)
        lo == ((n - 1) * p) \div 100
        fr == ((n - 1) * p) % 100
        hi == Min(lo + 1, n - 1)
    IN  lat[lo + 1] * 100 + fr * (lat[hi + 1] - lat[lo + 1])

\* np.percentile(latencies, p), linear interpolation, times 100
Percentile100(lat, p) ==
    LET a == SortSeq(lat, LAMBDA x, y : x < y)
        n == Len(a)
        lo == ((n - 1) * p) \div 100
        fr == ((n - 1) * p) % 100
        hi == Min(lo + 1, n - 1)
    IN  a[lo + 1] * 100 + fr * (a[hi + 1] - a[lo + 1])

\* the percentile entries of the metrics dict: present only with latency data
PercentileFields(lat) ==
    IF Len(lat) > 0
    THEN [p \in PercentileRanks |-> Fmt2(Percentile100(lat, p), 100)]
    ELSE [p \in {} |-> 0]

\* error_count / (successful_requests + error_count) raises on a zero divisor
RateDefined(succ, errs) == succ + errs # 0

\* variant: the share of successes instead of the share of errors
SuccessRate(succ, errs) == Fmt2(succ, succ + errs)

\* f"{error_rate:.2f}"
ErrorRate(succ, errs) == Fmt2(errs, succ + errs)

\* the metrics dict
Metrics(conc, dur, res, err) ==
    [level      |-> conc,
     duration   |-> dur,
     successful |-> Len(res),
     total_errors |-> Len(err),
     error_rate |-> ErrorRate(Len(res), Len(err)),
     pct        |-> PercentileFields(res)]

\* ------------------------------------------------------------------ run: report
\* the cell pandas puts where a row lacks a column
NaN == 0 - 1

\* pd.DataFrame(rows): the rows in list order; the percentile columns are
\* those of any row, and a row without them gets NaN there
DataFrame(rs) ==
    LET cols == UNION {DOMAIN rs[i].pct : i \in 1..Len(rs)}
    IN  [i \in 1..Len(rs) |->
            [rs[i] EXCEPT !.pct = [p \in cols |->
                IF p \in DOMAIN rs[i].pct THEN rs[i].pct[p] ELSE NaN]]]

\* ------------------------------------------------------------------ tasks
TasksOf(i) == {t \in DOMAIN tasks : t[1] = i}
\* variant: range(conc + 1), one worker too many
NewTasksOneMore(i, conc) == {<<i, k>> : k \in 0..conc}

NewTasks(i, conc) == {<<i, k>> : k \in 1..conc}
Stopped(t) == tasks[t].pc = "stopped"
Busy(t) == tasks[t].pc \in {"sleep", "inflight"}

\* variant: a task waiting in a blocking call keeps the thread, and no
\* other task runs meanwhile
LoopHeld(t) == \A u \in DOMAIN tasks \ {t} : ~Busy(u)

\* `await asyncio.sleep(...)` and `async with session.request(...)` hand the
\* event loop back: a task can take its step whatever the others wait for
LoopFree(t) == TRUE

\* variant: the run waits for the deadline, not for its tasks
GatheredAtDeadline(i) == now >= end_time

\* variant: the run goes on as soon as one task has returned
GatheredFirst(i) == \E t \in TasksOf(i) : Stopped(t)

\* await asyncio.gather(*tasks): every task of the run has returned
Gathered(i) == \A t \in TasksOf(i) : Stopped(t)

\* variant: the loop does not wait for the run in progress
RunNotAwaited == phase \in {"loop", "gather"}

\* variant: the exception of a run is swallowed and the loop goes on
RunAwaitedOrFailed == phase \in {"loop", "raised"}

\* results.append(await generator.run()): the loop goes on only after the
\* run in progress has returned
RunAwaited == phase = "loop"

\* variant: the row is put in front
PrependRow(rs, row) == <<row>> \o rs

\* results.append(row)
AppendRow(rs, row) == Append(rs, row)

\* the fresh collectors of a run
FreshList == << >>

\* ------------------------------------------------------------------ Init
\* the state after HTTPBenchmark.__init__, before run() is called
InitState(u, d, ls, rt, dt, m) ==
    /\ url = u
    /\ duration = d
    /\ concurrency_levels = ls
    /\ request_type = Upper(rt)
    /\ data = dt
    /\ mode = m
    /\ now = 0
    /\ phase = "loop"
    /\ level_idx = 0
    /\ rows = << >>
    /\ report = << >>
    /\ end_time = 0
    /\ results = << >>
    /\ errors = << >>
    /\ tasks = [t \in {} |-> 0]
    /\ completed = [i \in 1..Len(ls) |-> 0]
    /\ okLat = << >>
    /\ sent = {}

\* every URL, duration, level list and mode; the request shape is the
\* default of the signature (request_type="GET", data=None)
Init ==
    \E u \in Urls, d \in Durations, ls \in LevelLists, m \in Modes :
        InitState(u, d, ls, "GET", NoData, m)

\* a benchmark of a single level, with every URL, duration, level, mode and
\* request shape
InitRun ==
    \E u \in Urls, d \in Durations, c \in ConcValues, m \in Modes,
       rt \in RequestTypes, dt \in DataValues :
        InitState(u, d, <<c>>, rt, dt, m)

\* a single run at the moment gather has returned, its lists holding any
\* latencies (in ms) and up to one error: the input of the reduce step
InitReduce ==
    \E c \in 1..MaxConc, d \in 1..MaxDuration, lat \in LatencyLists, ne \in 0..1 :
        /\ url = "http://example.com"
        /\ duration = d
        /\ concurrency_levels = <<c>>
        /\ request_type = "GET"
        /\ data = NoData
        /\ mode = "burst"
        /\ now = d
        /\ phase = "gather"
        /\ level_idx = 1
        /\ rows = << >>
        /\ report = << >>
        /\ end_time = d
        /\ results = lat
        /\ errors = [k \in 1..ne |-> 1]
        /\ tasks = [t \in NewTasks(1, c) |->
                      [pc |-> "stopped", end_time |-> d, start_time |-> 0, begun |-> 0]]
        /\ completed = <<Len(lat) + ne>>
        /\ okLat = lat
        /\ sent = {[method |-> "GET", body |-> NoData, late |-> FALSE]}

\* ------------------------------------------------------------------ actions
\* run_tests takes the next level: LoadGenerator(...).run() computes the
\* deadline, makes the two lists and creates one task per worker
RunStart ==
    /\ RunAwaited
    /\ level_idx < Len(concurrency_levels)
    /\ LET i == level_idx + 1
           new == NewTasks(i, concurrency_levels[i])
           deadline == now + duration
       IN  /\ level_idx' = i
           /\ end_time' = deadline
           /\ tasks' = [t \in DOMAIN tasks \cup new |->
                          IF t \in new
                          THEN [pc |-> "check", end_time |-> deadline,
                                start_time |-> 0, begun |-> 0]
                          ELSE tasks[t]]
    /\ results' = FreshList
    /\ errors' = FreshList
    /\ okLat' = << >>
    /\ phase' = "gather"
    /\ UNCHANGED <<inputs, now, rows, report, completed, sent>>

\* the request leaves: start_time is read and session.request is entered;
\* b is the time at which the cycle began, `late` tells whether the request
\* leaves at or after the worker's deadline
Dispatch(t, b) ==
    /\ tasks' = [tasks EXCEPT ![t].pc = "inflight", ![t].start_time = now,
                              ![t].begun = b]
    /\ sent' = IF ValidUrl(url)
               THEN sent \cup {[method |-> request_type,
                                body |-> RequestBody(request_type, data),
                                late |-> now >= tasks[t].end_time]}
               ELSE sent

\* a worker finds the deadline open and enters _send_request
WorkerBegin(t) ==
    /\ tasks[t].pc = "check"
    /\ LoopFree(t)
    /\ DeadlineOpen(now, tasks[t].end_time)
    /\ Len(results) + Len(errors) + Cardinality({u \in DOMAIN tasks : Busy(u)}) < MaxSamples
    /\ IF Paced(mode)
       THEN /\ tasks' = [tasks EXCEPT ![t].pc = "sleep", ![t].begun = now]
            /\ UNCHANGED sent
       ELSE Dispatch(t, now)
    /\ UNCHANGED <<inputs, now, phase, level_idx, rows, report, end_time, results,
                   errors, completed, okLat>>

\* the pacing sleep is over
WorkerWake(t) ==
    /\ tasks[t].pc = "sleep"
    /\ LoopFree(t)
    /\ Dispatch(t, tasks[t].begun)
    /\ UNCHANGED <<inputs, now, phase, level_idx, rows, report, end_time, results,
                   errors, completed, okLat>>

\* the request ends and the worker appends its sample
WorkerFinish(t, outcome) ==
    /\ tasks[t].pc = "inflight"
    /\ LoopFree(t)
    /\ LET latency == SendResult(outcome, tasks[t].start_time, now)
       IN  /\ results' = NewResults(results, latency)
           /\ errors' = NewErrors(errors, latency)
    /\ okLat' = IF outcome = "ok"
                THEN Append(okLat, Latency(tasks[t].start_time, now))
                ELSE okLat
    /\ completed' = [completed EXCEPT ![t[1]] = @ + 1]
    /\ tasks' = [tasks EXCEPT ![t].pc = "check", ![t].start_time = 0, ![t].begun = 0]
    /\ UNCHANGED <<inputs, now, phase, level_idx, rows, report, end_time, sent>>

\* a worker finds the deadline passed and returns
WorkerStop(t) ==
    /\ tasks[t].pc = "check"
    /\ LoopFree(t)
    /\ ~DeadlineOpen(now, tasks[t].end_time)
    /\ tasks' = [tasks EXCEPT ![t].pc = "stopped"]
    /\ UNCHANGED <<inputs, now, phase, level_idx, rows, report, end_time, results,
                   errors, completed, okLat, sent>>

\* gather returns and the run reduces its lists into a row
RunReturn ==
    /\ phase = "gather"
    /\ Gathered(level_idx)
    /\ RateDefined(Len(results), Len(errors))
    /\ rows' = AppendRow(rows, Metrics(concurrency_levels[level_idx], duration,
                                       results, errors))
    /\ phase' = "loop"
    /\ UNCHANGED <<inputs, now, level_idx, report, end_time, results, errors, tasks,
                   completed, okLat, sent>>

\* gather returns and the division raises ZeroDivisionError, which leaves
\* run, run_tests, asyncio.run and HTTPBenchmark.run
RunRaise ==
    /\ phase = "gather"
    /\ Gathered(level_idx)
    /\ ~RateDefined(Len(results), Len(errors))
    /\ phase' = "raised"
    /\ UNCHANGED <<inputs, now, level_idx, rows, report, end_time, results, errors,
                   tasks, completed, okLat, sent>>

\* the for loop is exhausted: the DataFrame of the rows is returned
Finish ==
    /\ RunAwaited
    /\ level_idx = Len(concurrency_levels)
    /\ report' = DataFrame(rows)
    /\ phase' = "done"
    /\ UNCHANGED <<inputs, now, level_idx, rows, end_time, results, errors, tasks,
                   completed, okLat, sent>>

\* the wall clock advances
Tick ==
    /\ phase = "gather"
    /\ \E t \in DOMAIN tasks : ~Stopped(t)
    /\ now < end_time + MaxOvershoot
    /\ now' = now + 1
    /\ UNCHANGED <<inputs, phase, level_idx, rows, report, end_time, results, errors,
                   tasks, completed, okLat, sent>>

Next ==
    \/ RunStart
    \/ \E t \in DOMAIN tasks : WorkerBegin(t)
    \/ \E t \in DOMAIN tasks : WorkerWake(t)
    \/ \E t \in DOMAIN tasks : \E o \in Outcomes(url) : WorkerFinish(t, o)
    \/ \E t \in DOMAIN tasks : WorkerStop(t)
    \/ RunReturn
    \/ RunRaise
    \/ Finish
    \/ Tick

Spec == Init /\ [][Next]_vars

SpecRun == InitRun /\ [][Next]_vars

\* the clock keeps advancing; the event loop keeps running the workers that
\* can take a step, and every request in flight ends; run_tests and run go
\* on whenever they can
WorkerStep(t) ==
    \/ WorkerBegin(t)
    \/ WorkerWake(t)
    \/ WorkerStop(t)
    \/ \E o \in Outcomes(url) : WorkerFinish(t, o)

Fairness ==
    /\ WF_vars(Tick)
    /\ WF_vars(\E t \in DOMAIN tasks : WorkerStep(t))
    /\ WF_vars(RunStart \/ RunReturn \/ RunRaise \/ Finish)

SpecLive == Init /\ [][Next]_vars /\ Fairness

\* the first worker of the run is the one whose request may never return:
\* nothing is assumed about its steps, the other workers keep being run
Hung == <<1, 1>>

FairnessHung ==
    /\ WF_vars(Tick)
    /\ WF_vars(\E t \in DOMAIN tasks \ {Hung} : WorkerStep(t))
    /\ WF_vars(RunStart \/ RunReturn \/ RunRaise \/ Finish)

SpecHung == InitRun /\ [][Next]_vars /\ FairnessHung

\* the reduce step and the return of the report, from any latency list
NextReduce ==
    \/ RunReturn
    \/ Finish

SpecReduce == InitReduce /\ [][NextReduce]_vars

TypeOK ==
    /\ phase \in {"loop", "gather", "done", "raised"}
    /\ level_idx \in 0..Len(concurrency_levels)
    /\ \A t \in DOMAIN tasks : tasks[t].pc \in {"check", "sleep", "inflight", "stopped"}
\* ------------------------------------------------------------------ claims
InvalidConfig ==
    \/ duration <= 0
    \/ \E i \in 1..Len(concurrency_levels) : concurrency_levels[i] <= 0

\* the row of the run that has just returned, while its history is still kept
LastRowFresh == phase \in {"loop", "done"} /\ level_idx >= 1 /\ Len(rows) = level_idx

\* C1: in every row, Successful Requests + Total Errors is the number of
\* attempts the workers of that very run completed, and while a run is in
\* progress its two lists together hold one entry per completed attempt.
C1_SamplesMatchAttempts ==
    /\ \A i \in 1..Len(rows) :
          rows[i].successful + rows[i].total_errors = completed[i]
    /\ (phase = "gather" => Len(results) + Len(errors) = completed[level_idx])
    /\ \A i \in 1..Len(concurrency_levels) : i > level_idx => completed[i] = 0

\* a report of two runs, the first with two workers, successes and errors
C1_Witness ==
    /\ phase = "done"
    /\ Len(report) = 2
    /\ report[1].level = 2
    /\ report[1].successful >= 1
    /\ report[1].total_errors >= 1
    /\ completed[2] >= 2

\* C2 (as claimed): LoadGenerator.run never raises, and the error rate of
\* every row lies in [0, 1], also when no attempt was completed.
C2_ErrorRateAlwaysDefined ==
    /\ phase # "raised"
    /\ \A i \in 1..Len(rows) : rows[i].error_rate \in 0..100

\* C3: a returned report has one row per input level, and row i carries the
\* i-th level.
C3_ReportFollowsLevels ==
    phase = "done" =>
        /\ Len(report) = Len(concurrency_levels)
        /\ \A i \in 1..Len(report) : report[i].level = concurrency_levels[i]

\* a report for the levels [2, 1]
C3_Witness ==
    /\ phase = "done"
    /\ Len(report) = 2
    /\ report[1].level = 2
    /\ report[2].level = 1

\* C4: the workers that have not stopped all belong to the run in progress,
\* and a level's workers exist only once every earlier level's workers have
\* stopped and its row has been produced.
C4_RunsNeverOverlap ==
    /\ \A t \in DOMAIN tasks :
          ~Stopped(t) => (t[1] = level_idx /\ phase = "gather")
    /\ \A t \in DOMAIN tasks :
          /\ t[1] <= level_idx
          /\ t[1] < level_idx => (Stopped(t) /\ Len(rows) >= t[1])
    /\ (level_idx >= 1 => Len(rows) >= level_idx - 1)

\* a worker of the second level has a request in flight; the first level
\* had workers too
C4_Witness ==
    /\ TasksOf(1) # {}
    /\ \E t \in TasksOf(2) : tasks[t].pc = "inflight"

\* C5: a run has reduced its lists (a row exists, or the division raised)
\* only when all its workers have stopped, and no attempt of that run
\* completes afterwards.
C5_ReduceAfterJoin ==
    /\ \A i \in 1..Len(rows) :
          /\ \A t \in TasksOf(i) : Stopped(t)
          /\ Cardinality(TasksOf(i)) = concurrency_levels[i]
          /\ completed[i] = rows[i].successful + rows[i].total_errors
    /\ (phase = "raised" =>
          /\ \A t \in TasksOf(level_idx) : Stopped(t)
          /\ completed[level_idx] = 0)

\* a row of a run of two workers that completed three attempts
C5_Witness ==
    /\ Len(rows) >= 1
    /\ rows[1].level = 2
    /\ completed[1] = 3

C7_InvalidConfigRejected ==
    InvalidConfig =>
        /\ DOMAIN tasks = {}
        /\ sent = {}
        /\ completed = [i \in 1..Len(concurrency_levels) |-> 0]

\* C8: a run whose attempts all failed, and made at least one, returns a row
\* with no successful request, a positive error count, error rate 1.00 and
\* no percentile field; a run raises only when it made no attempt at all.
C8_AllErrorsRow ==
    /\ (LastRowFresh /\ okLat = << >> /\ completed[level_idx] >= 1) =>
          /\ rows[level_idx].successful = 0
          /\ rows[level_idx].total_errors >= 1
          /\ rows[level_idx].error_rate = 100
          /\ DOMAIN rows[level_idx].pct = {}
    /\ (phase = "raised" => completed[level_idx] = 0)

\* a row of a valid URL whose two attempts both failed
C8_Witness ==
    /\ ValidUrl(url)
    /\ LastRowFresh
    /\ okLat = << >>
    /\ completed[level_idx] >= 2
    /\ rows[level_idx].total_errors >= 2

\* C9: a row carries the four percentile fields exactly when it has a
\* successful request and none otherwise; they are the percentiles of the
\* latencies of the successful attempts, and no error marker is ever in the
\* latency list.
C9_PercentilesOverSuccesses ==
    /\ \A i \in 1..Len(rows) :
          /\ DOMAIN rows[i].pct = (IF rows[i].successful > 0 THEN PercentileRanks ELSE {})
    /\ LastRowFresh =>
          /\ rows[level_idx].successful = Len(okLat)
          /\ rows[level_idx].pct = PercentileFields(okLat)
    /\ \A k \in 1..Len(results) : results[k] >= 0
    /\ (phase = "gather" => results = okLat)

\* a row over two different latencies and one error: p50 and p99 differ
C9_Witness ==
    /\ LastRowFresh
    /\ rows[level_idx].successful = 2
    /\ rows[level_idx].total_errors = 1
    /\ rows[level_idx].pct[50] # rows[level_idx].pct[99]

\* C10 (as claimed): a GET request carries no body whatever the data, and
\* every other request carries the data unchanged.
C10_GetCarriesNoBody ==
    \A r \in sent :
        /\ r.method = "GET" => r.body = NoData
        /\ r.method # "GET" => r.body = data
\* the smallest and the largest entry of a non-empty list
SeqMin(q) == CHOOSE x \in {q[k] : k \in 1..Len(q)} : \A k \in 1..Len(q) : x <= q[k]
SeqMax(q) == CHOOSE x \in {q[k] : k \in 1..Len(q)} : \A k \in 1..Len(q) : x >= q[k]

C13_NoDispatchAfterDeadline == \A r \in sent : ~r.late

\* C13 (amended): every cycle (pacing delay, then request) begins before the
\* deadline; in burst mode the request is dispatched at once, so before the
\* deadline; in uniform and exponential mode the request is dispatched after
\* the delay without another check, at or after the deadline when the delay
\* crosses it.
C13_CycleBeginsBeforeDeadline ==
    /\ \A t \in DOMAIN tasks :
          Busy(t) =>
              /\ tasks[t].begun < tasks[t].end_time
              /\ (tasks[t].pc = "inflight" =>
                    /\ tasks[t].begun <= tasks[t].start_time
                    /\ (mode = "burst" => tasks[t].start_time = tasks[t].begun))
    /\ \A r \in sent : r.late => mode \in {"uniform", "exponential"}

\* a request dispatched at or after the deadline, after a pacing delay
C13_Witness ==
    /\ mode = "uniform"
    /\ \E r \in sent : r.late
    /\ \E t \in DOMAIN tasks :
          /\ tasks[t].pc = "inflight"
          /\ tasks[t].begun < tasks[t].end_time
          /\ tasks[t].start_time >= tasks[t].end_time

\* C14: a request in flight stays in flight, through the deadline too, until
\* it ends with one sample appended to the run's lists; the run does not
\* leave gather while a request is in flight, and the row it then produces
\* counts every entry of the two lists.
C14_InFlightRequestCounted ==
    [][/\ \A t \in DOMAIN tasks :
             tasks[t].pc = "inflight" =>
                 \/ /\ tasks'[t].pc = "inflight"
                    /\ tasks'[t].start_time = tasks[t].start_time
                    /\ phase' = "gather"
                 \/ /\ tasks'[t].pc = "check"
                    /\ Len(results') + Len(errors') = Len(results) + Len(errors) + 1
       /\ rows' # rows =>
             /\ Len(rows') = Len(rows) + 1
             /\ rows'[Len(rows')].successful = Len(results)
             /\ rows'[Len(rows')].total_errors = Len(errors)]_vars

\* a row that counts a request dispatched before the deadline and answered
\* at or after it
C14_Witness ==
    /\ LastRowFresh
    /\ duration = 1
    /\ mode = "burst"
    /\ rows[level_idx].successful = Len(okLat)
    /\ \E k \in 1..Len(okLat) : okLat[k] >= 1000 * duration

\* C15: a failed request appends exactly one error sample and no latency,
\* sends nothing again in that step, leaves its worker at the next deadline
\* check and the run in gather; and a run raises only with no sample at all.
C15_FailureBecomesOneErrorSample ==
    [][/\ (completed' # completed /\ okLat' = okLat) =>
             /\ errors' = Append(errors, 1)
             /\ results' = results
             /\ sent' = sent
             /\ phase' = phase
             /\ \E t \in DOMAIN tasks :
                   /\ tasks[t].pc = "inflight"
                   /\ tasks'[t].pc = "check"
                   /\ \A u \in DOMAIN tasks \ {t} : tasks'[u] = tasks[u]
       /\ phase' = "raised" => (errors' = << >> /\ results' = << >>)]_vars

\* a worker with a request in flight after its first request failed
C15_Witness ==
    /\ concurrency_levels = <<1>>
    /\ ValidUrl(url)
    /\ errors = <<1>>
    /\ results = << >>
    /\ <<1, 1>> \in DOMAIN tasks
    /\ tasks[<<1, 1>>].pc = "inflight"
\* C16: with the clock advancing and every request ending, every run in
\* progress leaves gather with all workers stopped, and HTTPBenchmark.run
\* ends (it returns the report or raises).
C16_BenchmarkTerminates ==
    /\ (phase = "gather") ~> (phase # "gather" /\ \A t \in DOMAIN tasks : Stopped(t))
    /\ <>(phase \in {"done", "raised"})

\* a finished benchmark of two levels whose last run waited for a request
\* answered at or after the deadline
C16_Witness ==
    /\ phase = "done"
    /\ Len(report) = 2
    /\ \E k \in 1..Len(okLat) : okLat[k] >= 1000 * duration
    /\ now >= end_time
\* the workers that run beside the first one
Siblings == {<<1, k>> : k \in 2..MaxConc}

\* the attempts of the run have room for one more
AttemptsLeft ==
    Len(results) + Len(errors) + Cardinality({u \in DOMAIN tasks : Busy(u)}) < MaxSamples

\* C17: whatever the other workers wait for, a worker that is not stopped can
\* take its next step (wake, finish, begin a cycle or stop); and when the
\* first worker's request never returns, every sibling still reaches STOPPED.
C17_SuspensionNeverBlocksSiblings ==
    /\ [](\A t \in DOMAIN tasks :
            (Busy(t) \/ (tasks[t].pc = "check" /\ (AttemptsLeft \/ now >= tasks[t].end_time)))
                => ENABLED WorkerStep(t))
    /\ \A t \in Siblings :
          (t \in DOMAIN tasks) ~> (t \in DOMAIN tasks /\ Stopped(t))

\* every worker of a run of two or more has a request in flight at once,
\* after an attempt of the run has already completed, and the deadline has
\* passed meanwhile
C17_Witness ==
    /\ phase = "gather"
    /\ Cardinality(TasksOf(level_idx)) >= 2
    /\ \A t \in TasksOf(level_idx) : tasks[t].pc = "inflight"
    /\ completed[level_idx] >= 1
    /\ now >= end_time
\* the number of workers range(n) yields
WorkerCount(n) == IF n >= 0 THEN n ELSE 0

\* C18: a run for level N has exactly N workers (none for N <= 0), each
\* holding the one deadline of the run, which is start + duration, read when
\* the run starts and never changed while the run gathers; the workers of
\* the run are never added to or removed, and the requests in flight are
\* never more than N.
C18_WorkersAndDeadlineFixed ==
    /\ [](level_idx >= 1 =>
            /\ Cardinality(TasksOf(level_idx)) =
                  WorkerCount(concurrency_levels[level_idx])
            /\ \A t \in TasksOf(level_idx) : tasks[t].end_time = end_time
            /\ Cardinality({t \in TasksOf(level_idx) : tasks[t].pc = "inflight"})
                  <= WorkerCount(concurrency_levels[level_idx]))
    /\ [][/\ (phase = "loop" /\ phase' = "gather") =>
                /\ end_time' = now + duration
                /\ now' = now
                /\ TasksOf(level_idx + 1) = {}
          /\ phase = "gather" =>
                /\ end_time' = end_time
                /\ level_idx' = level_idx
                /\ DOMAIN tasks' = DOMAIN tasks
                /\ \A t \in DOMAIN tasks : tasks'[t].end_time = tasks[t].end_time]_vars

\* a run of two workers past its deadline: one has stopped, the other still
\* has its request in flight, and both hold the deadline set at the start
C18_Witness ==
    /\ phase = "gather"
    /\ concurrency_levels[level_idx] = 2
    /\ \E t, u \in TasksOf(level_idx) :
          /\ Stopped(t)
          /\ tasks[u].pc = "inflight"
          /\ tasks[u].end_time = duration
    /\ duration >= 1
    /\ now > end_time
\* C19: in a run with at least one worker, a worker is stopped only at a
\* time >= the deadline, and the run has left gather (reduced into a row or
\* raised) only at a time >= start + duration.
C19_NoResultBeforeDeadline ==
    (level_idx >= 1 /\ concurrency_levels[level_idx] >= 1) =>
        /\ \A t \in TasksOf(level_idx) : Stopped(t) => now >= tasks[t].end_time
        /\ phase # "gather" => now >= end_time
        /\ Gathered(level_idx) => now >= end_time

\* the report of a run with workers and a positive duration, reduced at
\* the very second of its deadline
C19_Witness ==
    /\ phase = "done"
    /\ Len(report) = 1
    /\ concurrency_levels[1] >= 1
    /\ duration >= 1
    /\ now = end_time
\* C20: a report is returned only with one row per level, the run of every
\* level having returned its row; once the run of a level has raised,
\* nothing happens any more: no report is returned, no later level has any
\* worker, and the rows of the earlier levels stay inside.
C20_AllOrNothing ==
    /\ [](/\ phase = "done" =>
                /\ level_idx = Len(concurrency_levels)
                /\ Len(rows) = Len(concurrency_levels)
                /\ Len(report) = Len(concurrency_levels)
          /\ phase = "raised" =>
                /\ report = << >>
                /\ Len(rows) = level_idx - 1
                /\ \A t \in DOMAIN tasks : t[1] <= level_idx)
    /\ [][/\ phase # "raised"
          /\ report' # report => (phase = "loop" /\ phase' = "done")]_vars

\* the run of the second level has raised after the first level had
\* produced its row
C20_Witness ==
    /\ phase = "raised"
    /\ level_idx = 2
    /\ Len(concurrency_levels) >= 2
    /\ Len(rows) = 1
    /\ rows[1].successful + rows[1].total_errors >= 1
====
